---------------------------- MODULE Spec2Model ----------------------------
(***************************************************************************)
(* Model of the YARA signature updater (yara_updater.py) and of its        *)
(* self-healing validator (yara_validator.py).                             *)
(*                                                                         *)
(* A rule file is a sequence of lines, a line is a string without its      *)
(* line terminator (readlines/writelines keep terminators attached to      *)
(* their lines, so no operation of the validator joins or splits lines).   *)
(***************************************************************************)
EXTENDS Integers, Sequences, FiniteSets, TLC

(***************************************************************************)
(* Bounds of the model.                                                    *)
(***************************************************************************)
MaxLines == 3

MaxAttempts == 6

MaxRuns == 2

(***************************************************************************)
(* Text helpers: the Python string operations the code uses.               *)
(***************************************************************************)
StartsWith(s, p) == Len(s) >= Len(p) /\ SubSeq(s, 1, Len(p)) = p

DropPrefix(s, p) == SubSeq(s, Len(p) + 1, Len(s))

\* `sub in s`
Contains(s, sub) ==
    \E i \in 1..(Len(s) - Len(sub) + 1) : SubSeq(s, i, i + Len(sub) - 1) = sub

\* s.find(sub) as a 1-based index, 0 when absent
FindStr(s, sub) ==
    IF Contains(s, sub)
    THEN CHOOSE i \in 1..(Len(s) - Len(sub) + 1) :
            /\ SubSeq(s, i, i + Len(sub) - 1) = sub
            /\ \A j \in 1..(i - 1) : SubSeq(s, j, j + Len(sub) - 1) # sub
    ELSE 0

\* the character of s at position i
CharAt(s, i) == SubSeq(s, i, i)

\* str.replace(old, new) from position i on: every non-overlapping
\* occurrence, left to right
RECURSIVE StrReplaceFrom(_, _, _, _)
StrReplaceFrom(s, old, new, i) ==
    IF i > Len(s) THEN ""
    ELSE IF i + Len(old) - 1 <= Len(s) /\ SubSeq(s, i, i + Len(old) - 1) = old
         THEN new \o StrReplaceFrom(s, old, new, i + Len(old))
         ELSE CharAt(s, i) \o StrReplaceFrom(s, old, new, i + 1)

\* s.replace(old, new), old not empty
StrReplace(s, old, new) ==
    IF Len(old) = 0 THEN s
    ELSE CHOOSE r \in {StrReplaceFrom(a, b, c, 1) : a \in {s}, b \in {old}, c \in {new}} : TRUE

\* the longest prefix of s made of characters of the set cs
TakeWhile(s, cs) ==
    SubSeq(s, 1, CHOOSE n \in 0..Len(s) :
                    /\ \A i \in 1..n : CharAt(s, i) \in cs
                    /\ n < Len(s) => CharAt(s, n + 1) \notin cs)

\* str.strip() for the blanks that occur in a rule line
LStrip(s) == SubSeq(s, Len(TakeWhile(s, {" "})) + 1, Len(s))

RStrip(s) ==
    SubSeq(s, 1, CHOOSE n \in 0..Len(s) :
                    /\ \A i \in (n + 1)..Len(s) : CharAt(s, i) = " "
                    /\ n > 0 => CharAt(s, n) # " ")

Strip(s) == LStrip(RStrip(s))

Letters ==
    {"a","b","c","d","e","f","g","h","i","j","k","l","m","n","o","p","q","r",
     "s","t","u","v","w","x","y","z","A","B","C","D","E","F","G","H","I","J",
     "K","L","M","N","O","P","Q","R","S","T","U","V","W","X","Y","Z"}

Digits == {"0","1","2","3","4","5","6","7","8","9"}

IdentChars == Letters \cup Digits \cup {"_"}

\* the characters a rule line of the model is written with
LineChars == IdentChars \cup {" ", "{", "}", ":", "^"}

(***************************************************************************)
(* YaraValidator.__init__: the two regular expressions.                    *)
(***************************************************************************)
\* re.match(r'^(?:global )?(?:private )?(?:private )?rule ', line)
RuleStartMatch(line) ==
    LET a == IF StartsWith(line, "global ") THEN DropPrefix(line, "global ") ELSE line
        b == IF StartsWith(a, "private ") THEN DropPrefix(a, "private ") ELSE a
        c == IF StartsWith(b, "private ") THEN DropPrefix(b, "private ") ELSE b
    IN  StartsWith(c, "rule ")

\* the positions where 'rule ([^{^:]+)' matches: "rule " and one more
\* character that is none of { ^ :
RuleNameAt(line, i) ==
    /\ i + 5 <= Len(line)
    /\ SubSeq(line, i, i + 4) = "rule "
    /\ CharAt(line, i + 5) \notin {"{", "^", ":"}

\* re.search(self.rulename, line) is not None
RuleNameFound(line) == \E i \in 1..Len(line) : RuleNameAt(line, i)

\* re.search(self.rulename, line).group(1).strip()
RuleName(line) ==
    LET i == CHOOSE k \in 1..Len(line) :
                 RuleNameAt(line, k) /\ \A j \in 1..(k - 1) : ~RuleNameAt(line, j)
    IN  Strip(TakeWhile(SubSeq(line, i + 5, Len(line)), LineChars \ {"{", "^", ":"}))


(***************************************************************************)
(* State.                                                                  *)
(***************************************************************************)
VARIABLES
    \* yara_validator.py
    workdir,        \* updater_working_dir: source name -> aggregated file, or NoFile
    vfile,          \* the rule file validate_rules is working on
    vpc,            \* validate_rules: "idle", "check", "clean", "returned", "raised"
    verr,           \* the error paranoid_rule_check raised, NoErr when none
    change,         \* validate_rules' local flag
    attempts,       \* number of paranoid_rule_check calls of this validation
    repairs,        \* number of clean calls of this validation that returned
    orig,           \* the rule file as it was when validate_rules was called
    vstatus,        \* per file: how its validation of this run stands
    lastCheck,      \* per file: the outcome of its last paranoid_rule_check
    \* yara_updater.py, yara_update
    pc,             \* where yara_update stands
    run,            \* number of the run
    config,         \* what the configuration file holds
    previous_hash,  \* update_config['previous_hash']: file name -> hash
    upstream,       \* per source: the rules its remote serves, as aggregated
    fetchLog,       \* per source: what its fetch of this run came to
    fetched,        \* sources whose fetched files lie in download_directory
    si,             \* index of the source loop (line 242)
    fresh,          \* per source: the file as the Aggregator wrote it this run
    files_sha256,   \* the dict of line 232, in insertion order
    vi,             \* index of the validate/import loop (line 332)
    imported,       \* the import_file calls of this run, in order
    response,       \* the hash mapping this run wrote to response.yaml
    outdir,         \* update_output_path: the response.yaml it holds
    failed,         \* an error has ended this run
    chained,        \* previous_hash is the mapping the preceding run wrote, and
                    \* that run had aggregated a file for every source
    changedSince,   \* a source changed upstream since the preceding run
    \* yara_updater.py, the aggregation of one source (lines 253-276)
    fs,             \* download_directory: path -> lines of the file
    files,          \* the files the fetch of the source returned
    fi,             \* index of the loop over files (line 258)
    processed_files,\* the set of line 253
    resolved,       \* per processed top-level file: its temp_lines
    ipc,            \* the aggregation: "idle", "reset", "resolve", "done", "raised"
    outfile,        \* updater_working_dir/<source_name>.yar: the rules written
                    \* to it, or NoFile
    mode,           \* the variable mode of line 257
    \* yara_updater.py, url_download
    dl,             \* one call of url_download: where it stands, its argument
                    \* previous_update, what the server and the clock of the
                    \* host are like, the requests it has issued, its result
    \* yara_updater.py, the configured sources
    kinds,          \* source name -> "git" when its uri ends with .git, else "http"
    \* yara_updater.py, lines 278-292 for one file of a source
    cat,            \* the file, the category guessed for it, the metadata of
                    \* one of its signatures
    \* yara_.py, Yara._load_rules
    ld,             \* one call of _load_rules: the update directory, the
                    \* directories still to try, the local rules, self.rules
    \* yara_.py, the threads of the service
    th              \* self.rules, the owner of initialization_lock, where the
                    \* thread that loads rules and the threads in execute are

valVars == <<workdir, vfile, vpc, verr, change, attempts, repairs, orig, vstatus, lastCheck>>

pipeVars ==
    <<pc, run, config, previous_hash, upstream, fetchLog, fetched, si, fresh,
      files_sha256, vi, imported, response, outdir, failed, chained, changedSince>>

incVars == <<fs, files, fi, processed_files, resolved, ipc, outfile, mode>>

otherVars == <<dl, kinds, cat, ld, th>>

vars == <<valVars, pipeVars, incVars, otherVars>>

\* marks a path of the working directory that holds no file
NoFile == <<"NoFile">>

NoErr == [shape |-> "none", line |-> 0, msg |-> ""]

SourceNames == <<"s1", "s2">>

Sources == {SourceNames[i] : i \in 1..Len(SourceNames)}

(***************************************************************************)
(* The compile boundary (paranoid_rule_check runs the engine in a          *)
(* subprocess).  The engine is outside the repository; it is modelled by   *)
(* what it reports for a file written with the lines below: the first line *)
(* that is malformed, or lies outside any rule, or declares an identifier  *)
(* an earlier rule has declared.                                           *)
(***************************************************************************)
\* the identifier a line declares, "" when the line declares no rule
DeclIdent(line) ==
    LET a == IF StartsWith(line, "global ") THEN DropPrefix(line, "global ") ELSE line
        b == IF StartsWith(a, "private ") THEN DropPrefix(a, "private ") ELSE a
        id == TakeWhile(DropPrefix(b, "rule "), IdentChars)
        rest == DropPrefix(DropPrefix(b, "rule "), id)
    IN  IF StartsWith(b, "rule ") /\ Len(id) > 0
           /\ rest \in {" {", " { condition: true }"}
        THEN id ELSE ""

IsDecl(line) == DeclIdent(line) # ""

IsBody(line) == line \in {"  condition: true }"}

\* line i of f is an error for the engine
LineError(f, i) ==
    IF IsDecl(f[i])
    THEN \E j \in 1..(i - 1) : DeclIdent(f[j]) = DeclIdent(f[i])
    ELSE IF IsBody(f[i])
         THEN ~\E j \in 1..(i - 1) : IsDecl(f[j])
         ELSE TRUE

SyntaxErrorOf(f, i) ==
    [shape |-> "syntax",
     line  |-> i,
     msg   |-> IF IsDecl(f[i])
               THEN "duplicated identifier \"" \o DeclIdent(f[i]) \o "\""
               ELSE "syntax error, unexpected identifier"]

\* what compiling f reports: NoErr, or the first error
EngineCompile(f) ==
    IF \E i \in 1..Len(f) : LineError(f, i)
    THEN SyntaxErrorOf(f, CHOOSE i \in 1..Len(f) :
                              LineError(f, i) /\ \A j \in 1..(i - 1) : ~LineError(f, j))
    ELSE NoErr

\* a failure of the check that is no syntax error (line 99)
OtherFailure == [shape |-> "other", line |-> 0, msg |-> "YaraValidator has failed!"]

(***************************************************************************)
(* YaraValidator.clean                                                     *)
(***************************************************************************)
Raised(f) == [raised |-> TRUE, lines |-> f, name |-> ""]

Cleaned(f, n) == [raised |-> FALSE, lines |-> f, name |-> n]

\* second loop (lines 49-63): find_end runs up from the error line
RECURSIVE FindEnd(_, _, _)
FindEnd(f, find_start, find_end) ==
    IF find_end > Len(f) THEN Raised(f)
    ELSE IF RuleStartMatch(f[find_end]) \/ find_end = Len(f)
         THEN IF find_end = Len(f)
              THEN Cleaned(SubSeq(f, 1, find_start - 1), RuleName(f[find_start]))
              ELSE Cleaned(SubSeq(f, 1, find_start - 1) \o SubSeq(f, find_end, Len(f)),
                           RuleName(f[find_start]))
         ELSE FindEnd(f, find_start, find_end + 1)

\* first loop (lines 38-69): find_start runs down from the error line;
\* indices are 1-based here, so Python's find_start == -1 is find_start = 0
RECURSIVE FindStart(_, _, _)
FindStart(f, eline, find_start) ==
    IF find_start = 0 THEN Raised(f)
    ELSE IF find_start > Len(f) \/ find_start < -Len(f) + 1 THEN Raised(f)  \* IndexError
    ELSE LET line == IF find_start >= 1 THEN f[find_start] ELSE f[Len(f) + find_start]
         IN  IF RuleStartMatch(line)
             THEN IF ~RuleNameFound(line) THEN Raised(f)     \* .group on None
                  ELSE FindEnd(f, find_start, eline)
             ELSE FindStart(f, eline, find_start - 1)

\* lines 32-35: f_lines[error_line] with Python's index rules (eline = 0
\* addresses the last line, an index outside the list raises IndexError)
RenameLine(f, eline, name) ==
    LET idx == IF eline >= 1 THEN eline ELSE Len(f) + eline
    IN  IF idx < 1 \/ idx > Len(f) THEN Raised(f)
        ELSE Cleaned([f EXCEPT ![idx] = StrReplace(f[idx], name, name \o "_1")], name)

\* clean with a slip: when no rule start is found the error line is dropped
\* and the file written, instead of raising
cleanDropsErrorLine(f, eline, invalid_rule_name) ==
    LET r == IF invalid_rule_name # ""
             THEN RenameLine(f, eline, invalid_rule_name)
             ELSE FindStart(f, eline, eline)
    IN  IF r.raised /\ eline \in 1..Len(f)
        THEN Cleaned(SubSeq(f, 1, eline - 1) \o SubSeq(f, eline + 1, Len(f)), "")
        ELSE r

\* clean(rulefile, eline, message, invalid_rule_name) on the lines f of the
\* file: whether it raised, the lines it leaves on disk, the name it returns
clean(f, eline, invalid_rule_name) ==
    IF invalid_rule_name # ""
    THEN RenameLine(f, eline, invalid_rule_name)
    ELSE FindStart(f, eline, eline)

(***************************************************************************)
(* YaraValidator.validate_rules                                            *)
(***************************************************************************)
\* e_message.split('"')[1]; "" stands for the IndexError of a message
\* without a quote (handled by the caller)
HasQuote(msg) == Contains(msg, "\"")

QuotedName(msg) ==
    LET after == SubSeq(msg, FindStr(msg, "\"") + 1, Len(msg))
    IN  IF Contains(after, "\"") THEN SubSeq(after, 1, FindStr(after, "\"") - 1) ELSE after

\* lines 116-119
InvalidRuleName(err) ==
    IF Contains(err.msg, "duplicated identifier") THEN QuotedName(err.msg) ELSE ""

Bump(n) == IF n < MaxAttempts THEN n + 1 ELSE n

\* the handling of a syntax error with a slip: change is not set
CheckSyntaxErrorKeepsFlag ==
    /\ vpc = "check"
    /\ EngineCompile(workdir[vfile]) # NoErr
    /\ verr' = EngineCompile(workdir[vfile])
    /\ attempts' = Bump(attempts)
    /\ vpc' = IF Contains(verr'.msg, "duplicated identifier") /\ ~HasQuote(verr'.msg)
              THEN "raised" ELSE "clean"
    /\ vstatus' = [vstatus EXCEPT ![vfile] = IF vpc' = "raised" THEN "raised" ELSE @]
    /\ lastCheck' = [lastCheck EXCEPT ![vfile] = "failed"]
    /\ UNCHANGED <<workdir, vfile, change, repairs, orig, pipeVars, incVars, otherVars>>

\* the handling of any other failure with a slip: the loop goes on
CheckOtherFailureRetries ==
    /\ vpc = "check"
    /\ verr' = [shape |-> "other", line |-> 0, msg |-> "YaraValidator has failed!"]
    /\ change' = TRUE
    /\ attempts' = Bump(attempts)
    /\ vpc' = IF attempts < MaxAttempts THEN "check" ELSE "raised"
    /\ vstatus' = [vstatus EXCEPT ![vfile] = IF vpc' = "raised" THEN "raised" ELSE @]
    /\ lastCheck' = [lastCheck EXCEPT ![vfile] = "failed"]
    /\ UNCHANGED <<workdir, vfile, repairs, orig, pipeVars, incVars, otherVars>>

\* clean with a slip: the repaired lines are not written to the file
CleanStepNotWritten ==
    /\ vpc = "clean"
    /\ \E f \in {workdir[vfile]}, name \in {InvalidRuleName(verr)} :
       \E r \in {clean(f, verr.line, name)} :
          IF r.raised
          THEN /\ vpc' = "raised"
               /\ vstatus' = [vstatus EXCEPT ![vfile] = "raised"]
               /\ UNCHANGED repairs
          ELSE /\ vpc' = "check"
               /\ repairs' = Bump(repairs)
               /\ UNCHANGED vstatus
    /\ UNCHANGED <<workdir, vfile, verr, change, attempts, orig, lastCheck, pipeVars, incVars, otherVars>>

\* lines 104-106: the check passes and validate_rules returns change
CheckPasses ==
    /\ vpc = "check"
    /\ EngineCompile(workdir[vfile]) = NoErr
    /\ vpc' = "returned"
    /\ attempts' = Bump(attempts)
    /\ vstatus' = [vstatus EXCEPT ![vfile] = "returned"]
    /\ lastCheck' = [lastCheck EXCEPT ![vfile] = "ok"]
    /\ UNCHANGED <<workdir, vfile, verr, change, repairs, orig, pipeVars, incVars, otherVars>>

\* lines 109-119: the check raises a syntax error, which is parsed
CheckSyntaxError ==
    /\ vpc = "check"
    /\ EngineCompile(workdir[vfile]) # NoErr
    /\ verr' = EngineCompile(workdir[vfile])
    /\ change' = TRUE
    /\ attempts' = Bump(attempts)
    /\ vpc' = IF Contains(verr'.msg, "duplicated identifier") /\ ~HasQuote(verr'.msg)
              THEN "raised" ELSE "clean"
    /\ vstatus' = [vstatus EXCEPT ![vfile] = IF vpc' = "raised" THEN "raised" ELSE @]
    /\ lastCheck' = [lastCheck EXCEPT ![vfile] = "failed"]
    /\ UNCHANGED <<workdir, vfile, repairs, orig, pipeVars, incVars, otherVars>>

\* lines 109-111, 125-126: any other failure of the check is raised
CheckOtherFailure ==
    /\ vpc = "check"
    /\ verr' = OtherFailure
    /\ change' = TRUE
    /\ attempts' = Bump(attempts)
    /\ vpc' = "raised"
    /\ vstatus' = [vstatus EXCEPT ![vfile] = "raised"]
    /\ lastCheck' = [lastCheck EXCEPT ![vfile] = "failed"]
    /\ UNCHANGED <<workdir, vfile, repairs, orig, pipeVars, incVars, otherVars>>

\* lines 120-123, 128: clean either raises, and validate_rules raises it,
\* or writes the file, and the loop continues
CleanStep ==
    /\ vpc = "clean"
    /\ \E f \in {workdir[vfile]}, name \in {InvalidRuleName(verr)} :
       \E r \in {clean(f, verr.line, name)} :
          IF r.raised
          THEN /\ vpc' = "raised"
               /\ vstatus' = [vstatus EXCEPT ![vfile] = "raised"]
               /\ UNCHANGED <<workdir, repairs>>
          ELSE /\ vpc' = "check"
               /\ workdir' = [workdir EXCEPT ![vfile] = r.lines]
               /\ repairs' = Bump(repairs)
               /\ UNCHANGED vstatus
    /\ UNCHANGED <<vfile, verr, change, attempts, orig, lastCheck, pipeVars, incVars, otherVars>>

NextV == CheckOtherFailure \/ CleanStep \/ CheckPasses \/ CheckSyntaxError

(***************************************************************************)
(* Hashes.  get_sha256_for_file is modelled as an injection of the file's  *)
(* content: two files have the same hash exactly when they are equal.      *)
(***************************************************************************)
Sha256(f) == [sha256 |-> f]

\* no entry of the mapping: previous_hash.get(cache_name, None) is None
NoHash == [sha256 |-> <<"None">>]

\* the hash of a content no source serves any more
StaleHash == [sha256 |-> <<"deadbeef">>]

NoResponse == <<[name |-> "NoResponse", sha256 |-> NoHash]>>

\* url_download is not running
DownloadIdle ==
    dl = [pc |-> "idle", previous_update |-> 0, last_modified |-> 0, shift |-> 0,
          requests |-> <<>>, status |-> "none", result |-> "none"]

\* the parts of the program that have a specification of their own are at rest
\* no category is being guessed
CategoryIdle ==
    cat = [pc |-> "idle", source_name |-> "", file |-> "", guessed_category |-> "",
           metadata |-> <<>>]

\* _load_rules is not running
LoadIdle ==
    ld = [pc |-> "idle", exists |-> FALSE, dirs |-> <<>>, yara_rules_dirs |-> <<>>,
          rules |-> 0, self_rules |-> 0]

\* requests the service may be working on at a time
Executors == {"e1", "e2"}

\* the service is not started
ServiceIdle ==
    th = [rules |-> 0, lock |-> "", lpc |-> "idle", new |-> 0, loads |-> 0,
          epc |-> [e \in Executors |-> "idle"],
          using |-> [e \in Executors |-> 0],
          calls |-> [e \in Executors |-> 0]]

OthersIdle ==
    /\ DownloadIdle
    /\ CategoryIdle
    /\ LoadIdle
    /\ ServiceIdle
    /\ kinds = [s \in Sources |-> IF s = "s1" THEN "http" ELSE "git"]

\* no source is being aggregated file by file
AggregationIdle ==
    /\ fs = <<>>
    /\ files = <<>>
    /\ fi = 1
    /\ processed_files = {}
    /\ resolved = <<>>
    /\ ipc = "idle"
    /\ outfile = NoFile
    /\ mode = "w"

\* yara_update is not running: the state of its variables when
\* validate_rules is exercised on its own
PipelineIdle ==
    /\ pc = "validating"
    /\ run = 1
    /\ config = "ok"
    /\ previous_hash = [s \in Sources |-> NoHash]
    /\ upstream = [s \in Sources |-> <<>>]
    /\ fetchLog = [s \in Sources |-> "none"]
    /\ fetched = {}
    /\ si = 1
    /\ fresh = [s \in Sources |-> NoFile]
    /\ files_sha256 = <<>>
    /\ vi = 1
    /\ imported = <<>>
    /\ response = NoResponse
    /\ outdir = NoResponse
    /\ failed = FALSE
    /\ chained = FALSE
    /\ changedSince = FALSE

(***************************************************************************)
(* The validator on its own: validate_rules called on any file of at most  *)
(* MaxLines lines of the vocabulary.                                       *)
(***************************************************************************)
Vocabulary ==
    {"rule A { condition: true }",
     "rule B {bad syntax",
     "rule C { condition: true }",
     "private rule a {",
     "  condition: true }",
     "  bad"}

RECURSIVE FilesUpTo(_)
FilesUpTo(n) ==
    IF n = 0 THEN {<<>>}
    ELSE FilesUpTo(n - 1) \cup
         {Append(f, l) : f \in {g \in FilesUpTo(n - 1) : Len(g) = n - 1}, l \in Vocabulary}

InitV ==
    /\ \E f \in FilesUpTo(MaxLines) :
          /\ workdir = [s \in Sources |-> IF s = "s1" THEN f ELSE NoFile]
          /\ orig = f
    /\ vfile = "s1"
    /\ vpc = "check"
    /\ verr = NoErr
    /\ change = FALSE
    /\ attempts = 0
    /\ repairs = 0
    /\ vstatus = [s \in Sources |-> IF s = "s1" THEN "running" ELSE "none"]
    /\ lastCheck = [s \in Sources |-> "none"]
    /\ PipelineIdle
    /\ AggregationIdle
    /\ OthersIdle

SpecV == InitV /\ [][NextV]_vars

\* a running validate_rules takes its next step
FairSpecV == SpecV /\ WF_vars(NextV)


(***************************************************************************)
(* yara_updater.py: yara_update.                                           *)
(*                                                                         *)
(* The remote of a source and the libraries between its raw files and the  *)
(* aggregated file (include resolution apart, the parser and the rule      *)
(* serialiser are library code) are the environment: upstream[s] is the    *)
(* text the Aggregator writes for source s when its fetch yields files.    *)
(***************************************************************************)
\* uri.endswith('.git') (line 248)
SourceKind == kinds

ConfigKinds == {"ok", "missing", "nosources", "nocreds"}

Terminal == {"config_exit", "fetch_exit", "no_update_exit", "raised", "done"}

\* aggregated files the sources of the model may serve
FileGood == <<"rule A { condition: true }">>

FileUpdated == <<"rule A { condition: true }", "rule C { condition: true }">>

FileRepairable ==
    <<"private rule a {", "  bad", "rule A { condition: true }", "rule C { condition: true }">>

FileUnrecoverable == <<"  bad", "rule A { condition: true }">>

Contents == {FileGood, FileUpdated, FileRepairable, FileUnrecoverable}

\* keys of files_sha256, in insertion order
Names(d) == [k \in 1..Len(d) |-> d[k].name]

NameSet(d) == {d[k].name : k \in 1..Len(d)}

\* json.loads(previous_hash) of the mapping a run wrote
MappingOf(d) ==
    [s \in Sources |->
        IF s \in NameSet(d)
        THEN (CHOOSE e \in {d[k] : k \in 1..Len(d)} : e.name = s).sha256
        ELSE NoHash]

\* line 311: sha256 != previous_hash.get(cache_name, None)
HashAlwaysChanged(sha256, cache_name) == TRUE

HashChanged(sha256, cache_name) == sha256 # previous_hash[cache_name]

\* the loop of line 242 moves to its next source, or ends
NextSource ==
    /\ si' = si + 1
    /\ pc' = IF si + 1 > Len(SourceNames) THEN "gate" ELSE "download"

\* lines 215-224: no configuration file, or no sources in it: exit()
ConfigExit ==
    /\ pc = "start"
    /\ config \in {"missing", "nosources"}
    /\ pc' = "config_exit"
    /\ UNCHANGED <<otherVars, incVars, valVars, run, config, previous_hash, upstream, fetchLog, fetched, si,
                   fresh, files_sha256, vi, imported, response, outdir, failed, chained,
                   changedSince>>

\* lines 226-239: the configuration is parsed, the working directory reset
LoadConfig ==
    /\ pc = "start"
    /\ config \notin {"missing", "nosources"}
    /\ workdir' = [s \in Sources |-> NoFile]
    /\ files_sha256' = <<>>
    /\ si' = 1
    /\ pc' = "download"
    /\ UNCHANGED <<otherVars, incVars, vfile, vpc, verr, change, attempts, repairs, orig, vstatus, lastCheck,
                   run, config, previous_hash, upstream, fetchLog, fetched, fresh, vi,
                   imported, response, outdir, failed, chained, changedSince>>

\* lines 243-316 for a source whose fetch yields files: they are aggregated
\* into <source_name>.yar, which is hashed and compared with previous_hash
FetchAggregate ==
    /\ pc = "download"
    /\ LET s == SourceNames[si]
           sha256 == Sha256(upstream[s])
       IN  /\ fetchLog' = [fetchLog EXCEPT ![s] = "files"]
           /\ fetched' = IF SourceKind[s] = "http" THEN {s} ELSE fetched \cup {s}
           /\ workdir' = [workdir EXCEPT ![s] = upstream[s]]
           /\ fresh' = [fresh EXCEPT ![s] = upstream[s]]
           /\ files_sha256' = IF HashChanged(sha256, s)
                              THEN Append(files_sha256, [name |-> s, sha256 |-> sha256])
                              ELSE files_sha256
    /\ NextSource
    /\ UNCHANGED <<otherVars, incVars, vfile, vpc, verr, change, attempts, repairs, orig, vstatus, lastCheck,
                   run, config, previous_hash, upstream, vi, imported, response, outdir,
                   failed, chained, changedSince>>

\* lines 249, 258, 308: git_clone_repo returns [] (no new commit, or no file
\* matches the pattern); no aggregated file is written for the source
FetchNoFiles ==
    /\ pc = "download"
    /\ SourceKind[SourceNames[si]] = "git"
    /\ fetchLog' = [fetchLog EXCEPT ![SourceNames[si]] = "nofiles"]
    /\ fetched' = fetched \cup {SourceNames[si]}
    /\ NextSource
    /\ UNCHANGED <<otherVars, incVars, valVars, run, config, previous_hash, upstream, fresh, files_sha256, vi,
                   imported, response, outdir, failed, chained, changedSince>>

\* lines 251, 258-265: url_download returns None (not modified, a timeout,
\* a status that is not ok); files is [None] and os.path.dirname(None) raises
FetchNone ==
    /\ pc = "download"
    /\ SourceKind[SourceNames[si]] = "http"
    /\ \E why \in {"unchanged", "timeout"} :
          fetchLog' = [fetchLog EXCEPT ![SourceNames[si]] = why]
    /\ fetched' = {}
    /\ pc' = "raised"
    /\ failed' = TRUE
    /\ UNCHANGED <<otherVars, incVars, valVars, run, config, previous_hash, upstream, si, fresh, files_sha256,
                   vi, imported, response, outdir, chained, changedSince>>

\* lines 128-131: any other exception of the HTTP fetch: exit()
FetchExit ==
    /\ pc = "download"
    /\ SourceKind[SourceNames[si]] = "http"
    /\ fetchLog' = [fetchLog EXCEPT ![SourceNames[si]] = "error"]
    /\ fetched' = {}
    /\ pc' = "fetch_exit"
    /\ failed' = TRUE
    /\ UNCHANGED <<otherVars, incVars, valVars, run, config, previous_hash, upstream, si, fresh, files_sha256,
                   vi, imported, response, outdir, chained, changedSince>>

\* lines 159-161, 249: Repo.clone_from raises, nothing catches it
FetchRaises ==
    /\ pc = "download"
    /\ SourceKind[SourceNames[si]] = "git"
    /\ fetchLog' = [fetchLog EXCEPT ![SourceNames[si]] = "error"]
    /\ pc' = "raised"
    /\ failed' = TRUE
    /\ UNCHANGED <<otherVars, incVars, valVars, run, config, previous_hash, upstream, fetched, si, fresh,
                   files_sha256, vi, imported, response, outdir, chained, changedSince>>

\* lines 318-321: nothing changed: the output directory is removed, exit()
NoNewFiles ==
    /\ pc = "gate"
    /\ files_sha256 = <<>>
    /\ outdir' = NoResponse
    /\ pc' = "no_update_exit"
    /\ UNCHANGED <<otherVars, incVars, valVars, run, config, previous_hash, upstream, fetchLog, fetched, si,
                   fresh, files_sha256, vi, imported, response, failed, chained,
                   changedSince>>

\* lines 325-329: the client of the signature store is built
Connect ==
    /\ pc = "gate"
    /\ files_sha256 # <<>>
    /\ config # "nocreds"
    /\ vi' = 1
    /\ pc' = "validate"
    /\ UNCHANGED <<otherVars, incVars, valVars, run, config, previous_hash, upstream, fetchLog, fetched, si,
                   fresh, files_sha256, imported, response, outdir, failed, chained,
                   changedSince>>

\* lines 325-328: a missing credential (KeyError) or an unreachable store
ConnectRaises ==
    /\ pc = "gate"
    /\ files_sha256 # <<>>
    /\ pc' = "raised"
    /\ failed' = TRUE
    /\ UNCHANGED <<otherVars, incVars, valVars, run, config, previous_hash, upstream, fetchLog, fetched, si,
                   fresh, files_sha256, vi, imported, response, outdir, chained,
                   changedSince>>

\* lines 332-339 and 45-47: the next changed file is handed to validate_rules
StartCompileRules ==
    /\ pc = "validate"
    /\ vi <= Len(files_sha256)
    /\ vfile' = files_sha256[vi].name
    /\ vpc' = "check"
    /\ verr' = NoErr
    /\ change' = FALSE
    /\ attempts' = 0
    /\ repairs' = 0
    /\ orig' = workdir[files_sha256[vi].name]
    /\ vstatus' = [vstatus EXCEPT ![files_sha256[vi].name] = "running"]
    /\ pc' = "validating"
    /\ UNCHANGED <<otherVars, incVars, workdir, lastCheck, run, config, previous_hash, upstream, fetchLog,
                   fetched, si, fresh, files_sha256, vi, imported, response, outdir,
                   failed, chained, changedSince>>

\* line 50: validate_rules returned, _compile_rules returns True
CompileRulesReturns ==
    /\ pc = "validating"
    /\ vpc = "returned"
    /\ pc' = "import"
    /\ UNCHANGED <<otherVars, incVars, valVars, run, config, previous_hash, upstream, fetchLog, fetched, si,
                   fresh, files_sha256, vi, imported, response, outdir, failed, chained,
                   changedSince>>

\* _compile_rules with a slip: the exception of validate_rules is swallowed
CompileRulesSwallows ==
    /\ pc = "validating"
    /\ vpc = "raised"
    /\ pc' = "import"
    /\ UNCHANGED <<otherVars, incVars, valVars, run, config, previous_hash, upstream, fetchLog, fetched, si,
                   fresh, files_sha256, vi, imported, response, outdir, failed, chained,
                   changedSince>>

\* lines 48-49 and 341-342: validate_rules raised; _compile_rules and
\* yara_update raise it again, which ends the run
CompileRulesRaises ==
    /\ pc = "validating"
    /\ vpc = "raised"
    /\ pc' = "raised"
    /\ failed' = TRUE
    /\ UNCHANGED <<otherVars, incVars, valVars, run, config, previous_hash, upstream, fetchLog, fetched, si,
                   fresh, files_sha256, vi, imported, response, outdir, chained,
                   changedSince>>

\* line 340: the validated file is imported into the signature store
ImportFile ==
    /\ pc = "import"
    /\ imported' = Append(imported, [name |-> files_sha256[vi].name,
                                     content |-> workdir[files_sha256[vi].name]])
    /\ vi' = vi + 1
    /\ pc' = "validate"
    /\ UNCHANGED <<otherVars, incVars, valVars, run, config, previous_hash, upstream, fetchLog, fetched, si,
                   fresh, files_sha256, response, outdir, failed, chained, changedSince>>

\* import_file with a slip: its exception is logged and the loop goes on
ImportFileSkips ==
    /\ pc = "import"
    /\ failed' = TRUE
    /\ vi' = vi + 1
    /\ pc' = "validate"
    /\ UNCHANGED <<otherVars, incVars, valVars, run, config, previous_hash, upstream, fetchLog, fetched, si,
                   fresh, files_sha256, imported, response, outdir, chained, changedSince>>

\* lines 340-342: import_file raises (store unreachable, import rejected)
ImportFileRaises ==
    /\ pc = "import"
    /\ pc' = "raised"
    /\ failed' = TRUE
    /\ UNCHANGED <<otherVars, incVars, valVars, run, config, previous_hash, upstream, fetchLog, fetched, si,
                   fresh, files_sha256, vi, imported, response, outdir, chained,
                   changedSince>>

\* the response with a slip: the files are hashed again when it is written
WriteResponseRehashed ==
    /\ pc = "validate"
    /\ vi > Len(files_sha256)
    /\ response' = [k \in 1..Len(files_sha256) |->
                        [name |-> files_sha256[k].name,
                         sha256 |-> Sha256(workdir[files_sha256[k].name])]]
    /\ outdir' = response'
    /\ pc' = "done"
    /\ UNCHANGED <<otherVars, incVars, valVars, run, config, previous_hash, upstream, fetchLog, fetched, si,
                   fresh, files_sha256, vi, imported, failed, chained, changedSince>>

RECURSIVE CarriedOver(_)
\* the entries of previous_hash for the sources from index k on that have
\* no entry in files_sha256
CarriedOver(k) ==
    IF k > Len(SourceNames) THEN <<>>
    ELSE IF SourceNames[k] \notin NameSet(files_sha256) /\ previous_hash[SourceNames[k]] # NoHash
         THEN <<[name |-> SourceNames[k], sha256 |-> previous_hash[SourceNames[k]]]>>
              \o CarriedOver(k + 1)
         ELSE CarriedOver(k + 1)

\* the response with a slip: the entries of previous_hash for the files that
\* have not changed are written too
WriteResponseCarriesOver ==
    /\ pc = "validate"
    /\ vi > Len(files_sha256)
    /\ response' = files_sha256 \o CarriedOver(1)
    /\ outdir' = response'
    /\ pc' = "done"
    /\ UNCHANGED <<otherVars, incVars, valVars, run, config, previous_hash, upstream, fetchLog, fetched, si,
                   fresh, files_sha256, vi, imported, failed, chained, changedSince>>

\* lines 345-365: the store reports an update; the bundle is downloaded and
\* response.yaml written with the hashes of the changed files
WriteResponse ==
    /\ pc = "validate"
    /\ vi > Len(files_sha256)
    /\ response' = files_sha256
    /\ outdir' = files_sha256
    /\ pc' = "done"
    /\ UNCHANGED <<otherVars, incVars, valVars, run, config, previous_hash, upstream, fetchLog, fetched, si,
                   fresh, files_sha256, vi, imported, failed, chained, changedSince>>

\* line 345: update_available is false; nothing is written
NoUpdateAvailable ==
    /\ pc = "validate"
    /\ vi > Len(files_sha256)
    /\ pc' = "done"
    /\ UNCHANGED <<otherVars, incVars, valVars, run, config, previous_hash, upstream, fetchLog, fetched, si,
                   fresh, files_sha256, vi, imported, response, outdir, failed, chained,
                   changedSince>>

\* lines 345-353: update_available or download raises
UpdateCheckRaises ==
    /\ pc = "validate"
    /\ vi > Len(files_sha256)
    /\ pc' = "raised"
    /\ failed' = TRUE
    /\ UNCHANGED <<otherVars, incVars, valVars, run, config, previous_hash, upstream, fetchLog, fetched, si,
                   fresh, files_sha256, vi, imported, response, outdir, chained,
                   changedSince>>

\* a source changes upstream between two runs
UpstreamChange ==
    /\ pc \in Terminal
    /\ run < MaxRuns
    /\ ~changedSince
    /\ \E s \in Sources, c \in Contents :
          /\ c # upstream[s]
          /\ upstream' = [upstream EXCEPT ![s] = c]
    /\ changedSince' = TRUE
    /\ UNCHANGED <<otherVars, incVars, valVars, pc, run, config, previous_hash, fetchLog, fetched, si, fresh,
                   files_sha256, vi, imported, response, outdir, failed, chained>>

\* the next scheduled run starts (lines 213-233): its previous_hash is the
\* mapping the run before it wrote, when that run wrote one
NextRun ==
    /\ pc \in Terminal
    /\ config = "ok"
    /\ run < MaxRuns
    /\ run' = run + 1
    /\ previous_hash' = IF response # NoResponse THEN MappingOf(response) ELSE previous_hash
    /\ chained' = (response # NoResponse /\ \A s \in Sources : fetchLog[s] = "files")
    /\ pc' = "start"
    /\ si' = 1
    /\ vi' = 1
    /\ files_sha256' = <<>>
    /\ imported' = <<>>
    /\ response' = NoResponse
    /\ failed' = FALSE
    /\ changedSince' = FALSE
    /\ fetchLog' = [s \in Sources |-> "none"]
    /\ fresh' = [s \in Sources |-> NoFile]
    /\ vfile' = "s1"
    /\ vpc' = "idle"
    /\ verr' = NoErr
    /\ change' = FALSE
    /\ attempts' = 0
    /\ repairs' = 0
    /\ orig' = <<>>
    /\ vstatus' = [s \in Sources |-> "none"]
    /\ lastCheck' = [s \in Sources |-> "none"]
    /\ UNCHANGED <<otherVars, incVars, workdir, config, upstream, fetched, outdir>>

NextU ==
    \/ ConfigExit \/ LoadConfig
    \/ FetchAggregate \/ FetchNoFiles \/ FetchNone \/ FetchExit \/ FetchRaises
    \/ NoNewFiles \/ Connect \/ ConnectRaises
    \/ StartCompileRules \/ CompileRulesReturns \/ CompileRulesRaises
    \/ ImportFile \/ ImportFileRaises
    \/ WriteResponse \/ NoUpdateAvailable \/ UpdateCheckRaises
    \/ UpstreamChange \/ NextRun

Next == NextU \/ (pc = "validating" /\ NextV)

Init ==
    /\ pc = "start"
    /\ run = 1
    /\ config \in ConfigKinds
    /\ upstream \in [Sources -> Contents]
    /\ previous_hash \in [Sources -> {NoHash, StaleHash} \cup {Sha256(c) : c \in Contents}]
    /\ \A s \in Sources : previous_hash[s] \in {NoHash, StaleHash, Sha256(upstream[s])}
    /\ fetchLog = [s \in Sources |-> "none"]
    /\ fetched = {}
    /\ si = 1
    /\ fresh = [s \in Sources |-> NoFile]
    /\ files_sha256 = <<>>
    /\ vi = 1
    /\ imported = <<>>
    /\ response = NoResponse
    /\ outdir = NoResponse
    /\ failed = FALSE
    /\ chained = FALSE
    /\ changedSince = FALSE
    /\ AggregationIdle
    /\ DownloadIdle
    /\ CategoryIdle
    /\ LoadIdle
    /\ ServiceIdle
    /\ kinds \in [Sources -> {"http", "git"}]
    /\ workdir = [s \in Sources |-> NoFile]
    /\ vfile = "s1"
    /\ vpc = "idle"
    /\ verr = NoErr
    /\ change = FALSE
    /\ attempts = 0
    /\ repairs = 0
    /\ orig = <<>>
    /\ vstatus = [s \in Sources |-> "none"]
    /\ lastCheck = [s \in Sources |-> "none"]

Spec == Init /\ [][Next]_vars

(***************************************************************************)
(* yara_updater.py: the aggregation of one source, file by file, and       *)
(* replace_include.  The files of the source lie in one directory; each    *)
(* holds one rule line of its own and at most MaxIncludes include lines.   *)
(***************************************************************************)
MaxIncludes == 2

Dir == "/d"

PathA == "/d/a.yar"

PathB == "/d/b.yar"

PathC == "/d/c.yar"

\* the rule line a file of the model holds
OwnLine ==
    [p \in {PathA, PathB, PathC} |->
        IF p = PathA THEN "rule A { condition: true }"
        ELSE IF p = PathB THEN "rule B { condition: true }"
        ELSE "rule C { condition: true }"]

\* include lines: of a.yar, of b.yar by a path to normalise, of c.yar, of a
\* file that does not exist, and one the regular expression does not match
IncludeLines ==
    {"include 'a.yar'", "include './b.yar'", "include \"c.yar\"",
     "include 'miss.yar'", "include x"}

Quotes == {"'", "\""}

\* re.match(r"include [\'\"](.{4,})[\'\"]", include) is not None: the last
\* quote that leaves four characters or more after the opening one
ClosingQuotes(include) == {q \in 14..Len(include) : CharAt(include, q) \in Quotes}

IncludeMatches(include) ==
    /\ StartsWith(include, "include ")
    /\ Len(include) >= 9
    /\ CharAt(include, 9) \in Quotes
    /\ ClosingQuotes(include) # {}

\* .group(1): .{4,} is greedy
IncludePath(include) ==
    LET q == CHOOSE c \in ClosingQuotes(include) : \A d \in ClosingQuotes(include) : d <= c
    IN  SubSeq(include, 10, q - 1)

\* os.path.join(dirname, include_path) for a relative include_path
PathJoin(dirname, include_path) == dirname \o "/" \o include_path

\* os.path.normpath on the paths of the model: "." segments are dropped
NormPath(path) == StrReplace(path, "/./", "/")

\* os.path.dirname
DirName(path) ==
    LET slashes == {k \in 1..Len(path) : CharAt(path, k) = "/"}
    IN  IF slashes = {} THEN ""
        ELSE SubSeq(path, 1, (CHOOSE k \in slashes : \A j \in slashes : j <= k) - 1)

\* os.path.exists
PathExists(path) == path \in DOMAIN fs

RECURSIVE replace_include(_, _, _)
RECURSIVE ExpandLines(_, _, _, _)

\* the loops of lines 197-203 and 270-275 from line i on: an include line is
\* replaced by what replace_include returns, any other line is kept; st
\* holds temp_lines, processed_files and whether an exception was raised
ExpandLines(lines, i, dirname, st) ==
    IF i > Len(lines) \/ st.raised THEN st
    ELSE IF StartsWith(lines[i], "include")
         THEN LET r == replace_include(lines[i], dirname, st.processed)
              IN  ExpandLines(lines, i + 1, dirname,
                              [lines |-> st.lines \o r.lines,
                               processed |-> r.processed,
                               raised |-> r.raised])
         ELSE ExpandLines(lines, i + 1, dirname,
                          [st EXCEPT !.lines = Append(@, lines[i])])

\* replace_include with a slip: a missing target aborts the resolution
replace_includeAborts(include, dirname, processed) ==
    IF ~IncludeMatches(include)
    THEN [lines |-> <<>>, processed |-> processed, raised |-> TRUE]
    ELSE LET full_include_path == NormPath(PathJoin(dirname, IncludePath(include)))
         IN  IF ~PathExists(full_include_path)
             THEN [lines |-> <<>>, processed |-> processed, raised |-> TRUE]
             ELSE IF full_include_path \in processed
             THEN [lines |-> <<"">>, processed |-> processed, raised |-> FALSE]
             ELSE ExpandLines(fs[full_include_path], 1, DirName(full_include_path),
                              [lines |-> <<"">>,
                               processed |-> processed \cup {full_include_path},
                               raised |-> FALSE])

\* lines 184-205; the blank line that starts temp_lines is ""
replace_include(include, dirname, processed) ==
    IF ~IncludeMatches(include)
    THEN [lines |-> <<>>, processed |-> processed, raised |-> TRUE]
    ELSE LET full_include_path == NormPath(PathJoin(dirname, IncludePath(include)))
         IN  IF ~PathExists(full_include_path)
             THEN [lines |-> <<>>, processed |-> processed, raised |-> FALSE]
             ELSE IF full_include_path \in processed
             THEN [lines |-> <<"">>, processed |-> processed, raised |-> FALSE]
             ELSE ExpandLines(fs[full_include_path], 1, DirName(full_include_path),
                              [lines |-> <<"">>,
                               processed |-> processed \cup {full_include_path},
                               raised |-> FALSE])

\* a top-level file that is not added to processed_files
ExpandFileUnmarked(file) ==
    ExpandLines(fs[file], 1, DirName(file),
                [lines |-> <<>>, processed |-> processed_files, raised |-> FALSE])

\* lines 265-275 for one top-level file
ExpandFile(file) ==
    ExpandLines(fs[file], 1, DirName(file),
                [lines |-> <<>>,
                 processed |-> processed_files \cup {NormPath(file)},
                 raised |-> FALSE])

\* the keyword table of lines 54-60, in the order the dictionary is walked
cat_map ==
    << [cat |-> "technique", items |-> <<"antidebug", "antivm", "capabilities">>],
       [cat |-> "info", items |-> <<"info", "deprecated", "crypto", "packer">>],
       [cat |-> "tool", items |-> <<"webshell">>],
       [cat |-> "exploit", items |-> <<"cve", "exploit">>],
       [cat |-> "malware", items |-> <<"malware", "maldoc", "implant">>] >>

\* the None of line 67
NoCategory == ""

\* lines 62-65 for one entry of the table: item in rule_file_name
CatMatches(k, rule_file_name) ==
    \E j \in 1..Len(cat_map[k].items) : Contains(rule_file_name, cat_map[k].items[j])

\* lines 53-67
guess_category(rule_file_name) ==
    IF \E k \in 1..Len(cat_map) : CatMatches(k, rule_file_name)
    THEN cat_map[CHOOSE k \in 1..Len(cat_map) :
                    /\ CatMatches(k, rule_file_name)
                    /\ \A j \in 1..(k - 1) : ~CatMatches(j, rule_file_name)].cat
    ELSE NoCategory

RECURSIVE ParseLines(_, _)
\* line 280, Plyara.parse_string: one signature per rule of the text, in
\* the order of appearance; the blank lines are dropped
ParseLines(lines, i) ==
    IF i > Len(lines) THEN <<>>
    ELSE IF IsDecl(lines[i])
         THEN <<[rule_name |-> DeclIdent(lines[i]), metadata |-> <<>>]>>
              \o ParseLines(lines, i + 1)
         ELSE ParseLines(lines, i + 1)

\* lines 287-292: the guessed category is appended to the metadata
AddCategory(signatures, guessed_category) ==
    IF guessed_category # NoCategory
    THEN [k \in 1..Len(signatures) |->
            [signatures[k] EXCEPT !.metadata = Append(@, guessed_category)]]
    ELSE signatures

\* line 302, utils.rebuild_yara_rule: the text of one signature
rebuild_yara_rule(sig) ==
    IF sig.metadata = <<>>
    THEN "rule " \o sig.rule_name \o " { condition: true }"
    ELSE "rule " \o sig.rule_name \o " { meta: category = " \o sig.metadata[1]
         \o " condition: true }"

\* lines 278-302: what the loop writes for one file
Signatures(file, temp_lines) ==
    LET sigs == AddCategory(ParseLines(temp_lines, 1), guess_category(file))
    IN  [k \in 1..Len(sigs) |-> rebuild_yara_rule(sigs[k])]

\* line 295, open(file_name, mode): "w" truncates, "a" appends
OpenAndWrite(m, text) ==
    IF m = "w" \/ outfile = NoFile THEN text ELSE outfile \o text

\* lines 235-238: the working directory of the previous run is removed
ResetWorkingDir ==
    /\ ipc = "reset"
    /\ outfile' = NoFile
    /\ ipc' = "resolve"
    /\ UNCHANGED <<otherVars, valVars, pipeVars, fs, files, fi, processed_files, resolved, mode>>

\* the loop over files with a slip: a file that an include of an earlier
\* one has inlined is processed all the same
ResolveProcessedFile ==
    /\ ipc = "resolve"
    /\ fi <= Len(files)
    /\ files[fi] \in processed_files
    /\ resolved' = Append(resolved,
                          [file |-> files[fi],
                           lines |-> ExpandLines(fs[files[fi]], 1, DirName(files[fi]),
                                                 [lines |-> <<>>,
                                                  processed |-> processed_files,
                                                  raised |-> FALSE]).lines])
    /\ fi' = fi + 1
    /\ UNCHANGED <<otherVars, valVars, pipeVars, fs, files, processed_files, ipc, outfile, mode>>

\* lines 260-261: the file was inlined by an include of an earlier one
SkipProcessedFile ==
    /\ ipc = "resolve"
    /\ fi <= Len(files)
    /\ files[fi] \in processed_files
    /\ fi' = fi + 1
    /\ UNCHANGED <<otherVars, valVars, pipeVars, fs, files, processed_files, resolved, ipc, outfile, mode>>

\* the loop over files with a slip: the mode stays "w", every file
\* truncates the aggregated file
ResolveFileTruncates ==
    /\ ipc = "resolve"
    /\ fi <= Len(files)
    /\ files[fi] \notin processed_files
    /\ ~ExpandFile(files[fi]).raised
    /\ processed_files' = ExpandFile(files[fi]).processed
    /\ resolved' = Append(resolved, [file |-> files[fi], lines |-> ExpandFile(files[fi]).lines])
    /\ outfile' = Signatures(files[fi], ExpandFile(files[fi]).lines)
    /\ mode' = "a"
    /\ fi' = fi + 1
    /\ UNCHANGED <<otherVars, valVars, pipeVars, fs, files, ipc>>

\* lines 263-305: the includes of the file are resolved, its rules are
\* parsed and written to the aggregated file of the source
ResolveFile ==
    /\ ipc = "resolve"
    /\ fi <= Len(files)
    /\ files[fi] \notin processed_files
    /\ ~ExpandFile(files[fi]).raised
    /\ processed_files' = ExpandFile(files[fi]).processed
    /\ resolved' = Append(resolved, [file |-> files[fi], lines |-> ExpandFile(files[fi]).lines])
    /\ outfile' = OpenAndWrite(mode, Signatures(files[fi], ExpandFile(files[fi]).lines))
    /\ mode' = IF mode = "w" THEN "a" ELSE mode
    /\ fi' = fi + 1
    /\ UNCHANGED <<otherVars, valVars, pipeVars, fs, files, ipc>>

\* line 185: an include line the regular expression does not match; .group
\* of None raises
ResolveFileRaises ==
    /\ ipc = "resolve"
    /\ fi <= Len(files)
    /\ files[fi] \notin processed_files
    /\ ExpandFile(files[fi]).raised
    /\ ipc' = "raised"
    /\ UNCHANGED <<otherVars, valVars, pipeVars, fs, files, fi, processed_files, resolved, outfile, mode>>

\* line 258: the loop over files ends
AggregationDone ==
    /\ ipc = "resolve"
    /\ fi > Len(files)
    /\ ipc' = "done"
    /\ UNCHANGED <<otherVars, valVars, pipeVars, fs, files, fi, processed_files, resolved, outfile, mode>>

NextInc ==
    ResetWorkingDir \/ SkipProcessedFile \/ ResolveFile \/ ResolveFileRaises \/ AggregationDone

RECURSIVE IncludeSeqs(_)
IncludeSeqs(n) ==
    IF n = 0 THEN {<<>>}
    ELSE IncludeSeqs(n - 1) \cup
         {Append(q, l) : q \in {g \in IncludeSeqs(n - 1) : Len(g) = n - 1}, l \in IncludeLines}

\* what git_clone_repo may return for the source (line 249)
FileLists == {<<PathA>>, <<PathA, PathB>>, <<PathB, PathA, PathC>>}

\* what a previous run has left in the working directory
LeftOver == <<"rule Old { condition: true }">>

InitInc ==
    /\ OthersIdle
    /\ \E ia \in IncludeSeqs(MaxIncludes), ib \in IncludeSeqs(MaxIncludes) :
          fs = [p \in {PathA, PathB, PathC} |->
                   IF p = PathA THEN <<OwnLine[p]>> \o ia
                   ELSE IF p = PathB THEN <<OwnLine[p]>> \o ib
                   ELSE <<OwnLine[p]>>]
    /\ files \in FileLists
    /\ fi = 1
    /\ processed_files = {}
    /\ resolved = <<>>
    /\ ipc = "reset"
    /\ outfile = LeftOver
    /\ mode = "w"
    /\ workdir = [s \in Sources |-> NoFile]
    /\ vfile = "s1"
    /\ vpc = "idle"
    /\ verr = NoErr
    /\ change = FALSE
    /\ attempts = 0
    /\ repairs = 0
    /\ orig = <<>>
    /\ vstatus = [s \in Sources |-> "none"]
    /\ lastCheck = [s \in Sources |-> "none"]
    /\ pc = "download"
    /\ run = 1
    /\ config = "ok"
    /\ previous_hash = [s \in Sources |-> NoHash]
    /\ upstream = [s \in Sources |-> <<>>]
    /\ fetchLog = [s \in Sources |-> "none"]
    /\ fetched = {}
    /\ si = 1
    /\ fresh = [s \in Sources |-> NoFile]
    /\ files_sha256 = <<>>
    /\ vi = 1
    /\ imported = <<>>
    /\ response = NoResponse
    /\ outdir = NoResponse
    /\ failed = FALSE
    /\ chained = FALSE
    /\ changedSince = FALSE

SpecInc == InitInc /\ [][NextInc]_vars

(***************************************************************************)
(* yara_updater.py: url_download.  Instants are whole numbers from 1 to    *)
(* MaxTime; 0 stands for a previous_update that is not given, and for a    *)
(* response without a Last-Modified header.  The server and the time zone  *)
(* of the host are the environment.                                        *)
(***************************************************************************)
MaxTime == 3

\* time.mktime minus the instant a GMT date denotes: 0 on a host whose
\* local time is UTC, the offset of its time zone otherwise
Shifts == {-1, 0, 1}

\* time.strftime("%a, %d %b %Y %H:%M:%S %Z", time.gmtime(t)), and the
\* Last-Modified header of a document modified at t
HttpDate(t) == [gmt |-> t]

\* a request or a response without the header
NoHeader == [gmt |-> -1]

\* time.mktime(time.strptime(last_modified, ...)): the fields of the GMT
\* date are read as local time (line 95)
MkTime(date) == date.gmt + dl.shift

\* the Last-Modified header of the response to the HEAD request (line 91)
LastModifiedHeader ==
    IF dl.last_modified = 0 THEN NoHeader ELSE HttpDate(dl.last_modified)

\* lines 92-98: the header is there, previous_update is given, and the
\* document is not newer
NotModifiedSince ==
    /\ LastModifiedHeader # NoHeader
    /\ dl.previous_update # 0
    /\ MkTime(LastModifiedHeader) <= dl.previous_update

HeadRequest == [method |-> "HEAD", if_modified_since |-> NoHeader]

\* lines 103-110: the GET request, with If-Modified-Since when
\* previous_update is given
GetRequest ==
    [method |-> "GET",
     if_modified_since |-> IF dl.previous_update # 0
                           THEN HttpDate(dl.previous_update) ELSE NoHeader]

\* lines 90-101: the HEAD request finds the document unchanged; None
HeadUnchanged ==
    /\ dl.pc = "head"
    /\ NotModifiedSince
    /\ dl' = [dl EXCEPT !.requests = Append(@, HeadRequest),
                        !.pc = "returned", !.result = "none"]
    /\ UNCHANGED <<valVars, pipeVars, incVars, kinds, cat, ld, th>>

\* lines 90-108: the HEAD request does not settle it; on to the GET
HeadProceeds ==
    /\ dl.pc = "head"
    /\ ~NotModifiedSince
    /\ dl' = [dl EXCEPT !.requests = Append(@, HeadRequest), !.pc = "get"]
    /\ UNCHANGED <<valVars, pipeVars, incVars, kinds, cat, ld, th>>

\* lines 125-127: the HEAD request times out; None
HeadTimeout ==
    /\ dl.pc = "head"
    /\ dl' = [dl EXCEPT !.requests = Append(@, HeadRequest), !.status = "timeout",
                        !.pc = "returned", !.result = "none"]
    /\ UNCHANGED <<valVars, pipeVars, incVars, kinds, cat, ld, th>>

\* lines 128-131: the HEAD request raises anything else; exit()
HeadRaises ==
    /\ dl.pc = "head"
    /\ dl' = [dl EXCEPT !.requests = Append(@, HeadRequest), !.status = "error",
                        !.pc = "exit", !.result = "none"]
    /\ UNCHANGED <<valVars, pipeVars, incVars, kinds, cat, ld, th>>

\* lines 110-116: the server answers 304 Not Modified; None
GetNotModified ==
    /\ dl.pc = "get"
    /\ dl.previous_update # 0
    /\ dl' = [dl EXCEPT !.requests = Append(@, GetRequest), !.status = "not_modified",
                        !.pc = "returned", !.result = "none"]
    /\ UNCHANGED <<valVars, pipeVars, incVars, kinds, cat, ld, th>>

\* lines 117-124: the server answers ok; the file is written, its path returned
GetOk ==
    /\ dl.pc = "get"
    /\ dl' = [dl EXCEPT !.requests = Append(@, GetRequest), !.status = "ok",
                        !.pc = "returned", !.result = "file"]
    /\ UNCHANGED <<valVars, pipeVars, incVars, kinds, cat, ld, th>>

\* lines 113-117: any other status; the function ends without a return
GetNotOk ==
    /\ dl.pc = "get"
    /\ dl' = [dl EXCEPT !.requests = Append(@, GetRequest), !.status = "not_ok",
                        !.pc = "returned", !.result = "none"]
    /\ UNCHANGED <<valVars, pipeVars, incVars, kinds, cat, ld, th>>

\* lines 125-127: the GET request times out; None
GetTimeout ==
    /\ dl.pc = "get"
    /\ dl' = [dl EXCEPT !.requests = Append(@, GetRequest), !.status = "timeout",
                        !.pc = "returned", !.result = "none"]
    /\ UNCHANGED <<valVars, pipeVars, incVars, kinds, cat, ld, th>>

\* lines 128-131: the GET request raises anything else; exit()
GetRaises ==
    /\ dl.pc = "get"
    /\ dl' = [dl EXCEPT !.requests = Append(@, GetRequest), !.status = "error",
                        !.pc = "exit", !.result = "none"]
    /\ UNCHANGED <<valVars, pipeVars, incVars, kinds, cat, ld, th>>

NextDl ==
    \/ HeadUnchanged \/ HeadProceeds \/ HeadTimeout \/ HeadRaises
    \/ GetNotModified \/ GetOk \/ GetNotOk \/ GetTimeout \/ GetRaises

\* the validator at rest
ValidatorIdle ==
    /\ workdir = [s \in Sources |-> NoFile]
    /\ vfile = "s1"
    /\ vpc = "idle"
    /\ verr = NoErr
    /\ change = FALSE
    /\ attempts = 0
    /\ repairs = 0
    /\ orig = <<>>
    /\ vstatus = [s \in Sources |-> "none"]
    /\ lastCheck = [s \in Sources |-> "none"]

\* yara_update in its source loop, nothing fetched yet
UpdaterAtFetch ==
    /\ pc = "download"
    /\ run = 1
    /\ config = "ok"
    /\ previous_hash = [s \in Sources |-> NoHash]
    /\ upstream = [s \in Sources |-> <<>>]
    /\ fetchLog = [s \in Sources |-> "none"]
    /\ fetched = {}
    /\ si = 1
    /\ fresh = [s \in Sources |-> NoFile]
    /\ files_sha256 = <<>>
    /\ vi = 1
    /\ imported = <<>>
    /\ response = NoResponse
    /\ outdir = NoResponse
    /\ failed = FALSE
    /\ chained = FALSE
    /\ changedSince = FALSE

\* url_download is called with any previous_update, for a document with any
\* Last-Modified, on a host in any of the time zones
InitDl ==
    /\ dl \in [pc : {"head"}, previous_update : 0..MaxTime, last_modified : 0..MaxTime,
               shift : Shifts, requests : {<<>>}, status : {"none"}, result : {"none"}]
    /\ kinds = [s \in Sources |-> "http"]
    /\ CategoryIdle
    /\ LoadIdle
    /\ ServiceIdle
    /\ ValidatorIdle
    /\ UpdaterAtFetch
    /\ AggregationIdle

SpecDl == InitDl /\ [][NextDl]_vars

(***************************************************************************)
(* The category of a file (yara_updater.py, guess_category and lines       *)
(* 278-292 of yara_update): the file is the path the fetch has returned,   *)
(* download_directory/<name>.yar for an HTTP source (line 119) and         *)
(* download_directory/<name>/<file of the repository> for a git source     *)
(* (lines 145, 174-177).                                                   *)
(***************************************************************************)
\* UPDATE_DIR (line 29), the download_directory of line 371
download_directory == "/tmp/yara_updates"

\* names a source of the configuration can have
CatSourceNames == {"s1", "malware", "cve-rules", "tools"}

\* files a repository can hold
RepoFiles ==
    {"rules.yar", "antivm.yar", "packer.yar", "webshell.yar", "exploit_kit.yar",
     "maldoc.yar", "info_malware.yar", "implant_cve.yar"}

\* line 119
DownloadPath(name) == download_directory \o "/" \o name \o ".yar"

\* lines 145 and 174-177
ClonePath(name, f) == download_directory \o "/" \o name \o "/" \o f

\* line 278
GuessCategory ==
    /\ cat.pc = "guess"
    /\ cat' = [cat EXCEPT !.guessed_category = guess_category(cat.file), !.pc = "stamp"]
    /\ UNCHANGED <<valVars, pipeVars, incVars, dl, kinds, ld, th>>

\* lines 287-292: the category is appended to the metadata of the signature
StampCategory ==
    /\ cat.pc = "stamp"
    /\ cat.guessed_category # NoCategory
    /\ cat' = [cat EXCEPT !.metadata = Append(@, "category=" \o cat.guessed_category),
                          !.pc = "done"]
    /\ UNCHANGED <<valVars, pipeVars, incVars, dl, kinds, ld, th>>

\* line 287: guessed_category is None, the metadata is left as parsed
LeaveUncategorised ==
    /\ cat.pc = "stamp"
    /\ cat.guessed_category = NoCategory
    /\ cat' = [cat EXCEPT !.pc = "done"]
    /\ UNCHANGED <<valVars, pipeVars, incVars, dl, kinds, ld, th>>

NextCat == GuessCategory \/ StampCategory \/ LeaveUncategorised

\* any file of any source, the signature with or without metadata of its own
InitCat ==
    /\ \E name \in CatSourceNames, md \in {<<>>, <<"author=a">>} :
          \/ cat = [pc |-> "guess", source_name |-> name, file |-> DownloadPath(name),
                    guessed_category |-> NoCategory, metadata |-> md]
          \/ \E f \in RepoFiles :
                cat = [pc |-> "guess", source_name |-> name, file |-> ClonePath(name, f),
                       guessed_category |-> NoCategory, metadata |-> md]
    /\ DownloadIdle
    /\ LoadIdle
    /\ ServiceIdle
    /\ kinds = [s \in Sources |-> "git"]
    /\ ValidatorIdle
    /\ UpdaterAtFetch
    /\ AggregationIdle

SpecCat == InitCat /\ [][NextCat]_vars

(***************************************************************************)
(* Yara._load_rules (yara_.py, lines 350-382).  The entries of             *)
(* FILE_UPDATE_DIRECTORY are named by the integers 1..MaxDirs, in the      *)
(* order of their names; an entry is a directory without files ("empty"),  *)
(* one whose files compile ("valid"), one with a file yara.compile         *)
(* rejects ("broken"), or one whose name starts with .tmp ("tmp").  A      *)
(* compiled ruleset is named by the directory it comes from, 0 is None.    *)
(***************************************************************************)
MaxDirs == 3

DirKinds == {"empty", "valid", "broken", "tmp"}

RECURSIVE SortedReverse(_)
\* sorted(..., reverse=True)
SortedReverse(names) ==
    IF names = {} THEN <<>>
    ELSE LET m == CHOOSE x \in names : \A y \in names : y <= x
         IN  <<m>> \o SortedReverse(names \ {m})

\* line 358
ListRulesDirs(dirs) ==
    SelectSeq(SortedReverse(DOMAIN dirs), LAMBDA x : dirs[x] # "tmp")

\* lines 355-356: the update directory does not exist
LoadNoDirectory ==
    /\ ld.pc = "start"
    /\ ~ld.exists
    /\ ld' = [ld EXCEPT !.pc = "raised"]
    /\ UNCHANGED <<valVars, pipeVars, incVars, dl, kinds, cat, th>>

\* lines 358-360
LoadListDirs ==
    /\ ld.pc = "start"
    /\ ld.exists
    /\ ld' = [ld EXCEPT !.yara_rules_dirs = ListRulesDirs(ld.dirs), !.rules = 0,
                        !.pc = "loop"]
    /\ UNCHANGED <<valVars, pipeVars, incVars, dl, kinds, cat, th>>

\* lines 363-365: the directory holds no file, the loop continues
LoadSkipEmpty ==
    /\ ld.pc = "loop"
    /\ ld.yara_rules_dirs # <<>>
    /\ ld.dirs[Head(ld.yara_rules_dirs)] = "empty"
    /\ ld' = [ld EXCEPT !.yara_rules_dirs = Tail(@)]
    /\ UNCHANGED <<valVars, pipeVars, incVars, dl, kinds, cat, th>>

\* lines 370-379: the files compile, self.rules is replaced under the lock
LoadCompiles ==
    /\ ld.pc = "loop"
    /\ ld.yara_rules_dirs # <<>>
    /\ ld.dirs[Head(ld.yara_rules_dirs)] = "valid"
    /\ ld' = [ld EXCEPT !.rules = Head(ld.yara_rules_dirs),
                        !.self_rules = Head(ld.yara_rules_dirs),
                        !.pc = "returned"]
    /\ UNCHANGED <<valVars, pipeVars, incVars, dl, kinds, cat, th>>

\* line 373: yara.compile raises yara.SyntaxError, nothing catches it
LoadCompileRaises ==
    /\ ld.pc = "loop"
    /\ ld.yara_rules_dirs # <<>>
    /\ ld.dirs[Head(ld.yara_rules_dirs)] = "broken"
    /\ ld' = [ld EXCEPT !.pc = "raised"]
    /\ UNCHANGED <<valVars, pipeVars, incVars, dl, kinds, cat, th>>

\* lines 381-382: the loop ends with rules None
LoadNoneValid ==
    /\ ld.pc = "loop"
    /\ ld.yara_rules_dirs = <<>>
    /\ ld.rules = 0
    /\ ld' = [ld EXCEPT !.pc = "raised"]
    /\ UNCHANGED <<valVars, pipeVars, incVars, dl, kinds, cat, th>>

NextLoad ==
    \/ LoadNoDirectory \/ LoadListDirs \/ LoadSkipEmpty \/ LoadCompiles
    \/ LoadCompileRaises \/ LoadNoneValid

\* _load_rules is called on any content of the update directory, with or
\* without a ruleset loaded before
InitLoad ==
    /\ \E names \in SUBSET (1..MaxDirs), old \in {0, 1} :
          \/ \E dirs \in [names -> DirKinds] :
                ld = [pc |-> "start", exists |-> TRUE, dirs |-> dirs,
                      yara_rules_dirs |-> <<>>, rules |-> 0, self_rules |-> old]
          \/ /\ names = {}
             /\ ld = [pc |-> "start", exists |-> FALSE, dirs |-> <<>>,
                      yara_rules_dirs |-> <<>>, rules |-> 0, self_rules |-> old]
    /\ DownloadIdle
    /\ CategoryIdle
    /\ ServiceIdle
    /\ kinds = [s \in Sources |-> "git"]
    /\ ValidatorIdle
    /\ UpdaterAtFetch
    /\ AggregationIdle

SpecLoad == InitLoad /\ [][NextLoad]_vars

(***************************************************************************)
(* The threads of the service (yara_.py): one thread calls _load_rules     *)
(* while others are in execute.  A compiled ruleset is named by a          *)
(* positive integer, 0 is None; th.lock is the thread that holds           *)
(* initialization_lock, "" when it is free.                                *)
(***************************************************************************)
MaxLoads == 2

MaxCalls == 2

Loader == "loader"

\* lines 358-373: the rules of an update directory are compiled
ThreadCompiles ==
    /\ th.lpc = "idle"
    /\ th.loads < MaxLoads
    /\ th' = [th EXCEPT !.new = th.rules + 1, !.loads = @ + 1, !.lpc = "compiled"]
    /\ UNCHANGED <<valVars, pipeVars, incVars, dl, kinds, cat, ld>>

\* _load_rules with a slip: self.rules is assigned without the lock
ThreadSkipsLock ==
    /\ th.lpc = "compiled"
    /\ th' = [th EXCEPT !.lpc = "locked"]
    /\ UNCHANGED <<valVars, pipeVars, incVars, dl, kinds, cat, ld>>

\* line 376: with self.initialization_lock
ThreadAcquires ==
    /\ th.lpc = "compiled"
    /\ th.lock = ""
    /\ th' = [th EXCEPT !.lock = Loader, !.lpc = "locked"]
    /\ UNCHANGED <<valVars, pipeVars, incVars, dl, kinds, cat, ld>>

\* line 377: self.rules = rules
ThreadAssigns ==
    /\ th.lpc = "locked"
    /\ th' = [th EXCEPT !.rules = th.new, !.lpc = "assigned"]
    /\ UNCHANGED <<valVars, pipeVars, incVars, dl, kinds, cat, ld>>

\* line 379: the return leaves the with block, the lock is released
ThreadReleases ==
    /\ th.lpc = "assigned"
    /\ th' = [th EXCEPT !.lock = IF @ = Loader THEN "" ELSE @, !.lpc = "idle"]
    /\ UNCHANGED <<valVars, pipeVars, incVars, dl, kinds, cat, ld>>

\* lines 387-388: no ruleset is loaded, execute returns
ExecuteNoRules(e) ==
    /\ th.epc[e] = "idle"
    /\ th.calls[e] < MaxCalls
    /\ th.rules = 0
    /\ th' = [th EXCEPT !.calls[e] = @ + 1]
    /\ UNCHANGED <<valVars, pipeVars, incVars, dl, kinds, cat, ld>>

\* lines 387-420: a ruleset is loaded, the externals are prepared
ExecutePrepares(e) ==
    /\ th.epc[e] = "idle"
    /\ th.calls[e] < MaxCalls
    /\ th.rules # 0
    /\ th' = [th EXCEPT !.calls[e] = @ + 1, !.epc[e] = "prepared"]
    /\ UNCHANGED <<valVars, pipeVars, incVars, dl, kinds, cat, ld>>

\* line 422: with self.initialization_lock
ExecuteAcquires(e) ==
    /\ th.epc[e] = "prepared"
    /\ th.lock = ""
    /\ th' = [th EXCEPT !.lock = e, !.epc[e] = "locked"]
    /\ UNCHANGED <<valVars, pipeVars, incVars, dl, kinds, cat, ld>>

\* line 424: self.rules is read and its match method called
ExecuteMatchStarts(e) ==
    /\ th.epc[e] = "locked"
    /\ th' = [th EXCEPT !.using[e] = th.rules, !.epc[e] = "matching"]
    /\ UNCHANGED <<valVars, pipeVars, incVars, dl, kinds, cat, ld>>

\* lines 424-425: the match returns, the result is extracted, the lock
\* released
ExecuteMatchReturns(e) ==
    /\ th.epc[e] = "matching"
    /\ th' = [th EXCEPT !.lock = "", !.epc[e] = "idle"]
    /\ UNCHANGED <<valVars, pipeVars, incVars, dl, kinds, cat, ld>>

\* lines 426-429: the match raises; an exception object differs from the
\* string it is compared with, so it is raised again, which releases the lock
ExecuteMatchRaises(e) ==
    /\ th.epc[e] = "matching"
    /\ th' = [th EXCEPT !.lock = "", !.epc[e] = "raised"]
    /\ UNCHANGED <<valVars, pipeVars, incVars, dl, kinds, cat, ld>>

NextSvc ==
    \/ ThreadCompiles \/ ThreadAcquires \/ ThreadAssigns \/ ThreadReleases
    \/ \E e \in Executors :
          \/ ExecuteNoRules(e) \/ ExecutePrepares(e) \/ ExecuteAcquires(e)
          \/ ExecuteMatchStarts(e) \/ ExecuteMatchReturns(e) \/ ExecuteMatchRaises(e)

\* the service before start() (self.rules is None, line 116) or with a
\* ruleset loaded
InitSvc ==
    /\ \E r \in {0, 1} :
          th = [rules |-> r, lock |-> "", lpc |-> "idle", new |-> 0, loads |-> 0,
                epc |-> [e \in Executors |-> "idle"],
                using |-> [e \in Executors |-> 0],
                calls |-> [e \in Executors |-> 0]]
    /\ DownloadIdle
    /\ CategoryIdle
    /\ LoadIdle
    /\ kinds = [s \in Sources |-> "git"]
    /\ ValidatorIdle
    /\ UpdaterAtFetch
    /\ AggregationIdle

SpecSvc == InitSvc /\ [][NextSvc]_vars

(***************************************************************************)
(* Properties of the validator.                                            *)
(***************************************************************************)
\* the file validate_rules is working on, as it is on disk
RuleFile == workdir[vfile]

\* indices of the rule-declaration lines of f
StartsOf(f) == {i \in 1..Len(f) : RuleStartMatch(f[i])}

\* the declaration line of the rule that line i of f belongs to (0: none)
OwnerOf(f, i) ==
    IF \E k \in StartsOf(f) : k <= i
    THEN CHOOSE k \in StartsOf(f) : k <= i /\ \A m \in StartsOf(f) : m <= i => m <= k
    ELSE 0

Malformed(line) == ~IsDecl(line) /\ ~IsBody(line)

\* the rules of f that hold a malformed line, by their declaration line
InvalidRules(f) == {OwnerOf(f, i) : i \in {j \in 1..Len(f) : Malformed(f[j])}}

\* f is made of rules only, some of them syntactically invalid, and its
\* valid rules compile together
RulesWithSyntaxErrors(f) ==
    /\ \A i \in 1..Len(f) : OwnerOf(f, i) # 0
    /\ \A i, j \in 1..Len(f) :
          (i < j /\ IsDecl(f[i]) /\ IsDecl(f[j])) => DeclIdent(f[i]) # DeclIdent(f[j])

\* the lines of f at the indices of keep, from line i on, in their order
RECURSIVE KeepLines(_, _, _)
KeepLines(f, keep, i) ==
    IF i > Len(f) THEN <<>>
    ELSE (IF i \in keep THEN <<f[i]>> ELSE <<>>) \o KeepLines(f, keep, i + 1)

\* the lines of the valid rules of f, in their order
ValidRulesOf(f) ==
    KeepLines(f, {i \in 1..Len(f) : OwnerOf(f, i) \notin InvalidRules(f)}, 1)

\* C3: on a file of valid rules and k syntactically invalid ones,
\* validate_rules makes at most k+1 compile attempts and returns with the
\* file holding exactly the valid rules, in their original order
C3_RepairTermination ==
    RulesWithSyntaxErrors(orig) =>
        /\ attempts <= Cardinality(InvalidRules(orig)) + 1
        /\ vpc = "returned" => RuleFile = ValidRulesOf(orig)

\* orig holds two rules that share an identifier and nothing else the
\* engine objects to: d is the line of the second declaration
OneDuplicate(f, d) ==
    /\ \A i \in 1..Len(f) : ~Malformed(f[i]) /\ OwnerOf(f, i) # 0
    /\ d \in 1..Len(f)
    /\ {j \in 1..Len(f) : LineError(f, j)} = {d}
    /\ IsDecl(f[d])

\* C4: for two rules sharing an identifier, validate_rules returns with the
\* second declaration renamed to <identifier>_1, every other line as it
\* was, no line removed, and the file compiling
C4_DuplicateRenamed ==
    \A d \in 1..Len(orig) :
        (OneDuplicate(orig, d) /\ vpc = "returned") =>
            /\ Len(RuleFile) = Len(orig)
            /\ \A i \in 1..Len(orig) : i # d => RuleFile[i] = orig[i]
            /\ DeclIdent(RuleFile[d]) = DeclIdent(orig[d]) \o "_1"
            /\ EngineCompile(RuleFile) = NoErr

NoRuleStartAtOrBefore(f, e) ==
    \A i \in 1..Len(f) : i <= e => ~RuleStartMatch(f[i])

\* C5: a syntax error that is no duplicate, on a line with no rule
\* declaration at or before it: clean raises, validate_rules raises, and the
\* file on disk stays as it was
C5_BoundaryNotFoundFatal ==
    [][(/\ vpc = "clean"
        /\ InvalidRuleName(verr) = ""
        /\ NoRuleStartAtOrBefore(RuleFile, verr.line))
       => (vpc' = "raised" /\ workdir' = workdir)]_vars

C5_Witness ==
    /\ vpc = "raised"
    /\ verr.shape = "syntax"
    /\ InvalidRuleName(verr) = ""
    /\ Len(RuleFile) >= 2
    /\ NoRuleStartAtOrBefore(RuleFile, verr.line)

\* C6: validate_rules always reaches a terminal state, returning or raising
C6_ValidatorTerminates == <>(vpc \in {"returned", "raised"})

\* C15: when validate_rules returns, its flag is TRUE exactly when a call
\* of clean had returned before, FALSE exactly when the first compile
\* attempt passed, and the file on disk is the one that last compiled
C15_ChangeFlag ==
    /\ [](vpc = "returned" =>
            /\ change = (repairs >= 1)
            /\ (~change) = (attempts = 1)
            /\ EngineCompile(RuleFile) = NoErr)
    /\ [][(vpc = "check" /\ vpc' = "returned") =>
            (workdir' = workdir /\ EngineCompile(RuleFile) = NoErr)]_vars

\* validate_rules returned after a repair, with the flag set
C15_Witness ==
    /\ vpc = "returned"
    /\ change
    /\ repairs >= 1
    /\ RuleFile # orig

\* the removal the specification describes: from the declaration line at or
\* before e up to the next declaration line after e, or the end of the file
SpecRemoval(f, e) ==
    LET start == OwnerOf(f, e)
        nexts == {k \in StartsOf(f) : k > e}
        end   == IF nexts = {} THEN Len(f) + 1
                 ELSE CHOOSE k \in nexts : \A m \in nexts : k <= m
    IN  SubSeq(f, 1, start - 1) \o SubSeq(f, end, Len(f))

\* C16: a clean for an error that is no duplicate, when it returns, has
\* deleted the lines from the nearest declaration line at or before the
\* error up to the next declaration line, and left every other line alone
C16_RemovalRange ==
    [][(vpc = "clean" /\ InvalidRuleName(verr) = "" /\ vpc' = "check")
       => workdir'[vfile] = SpecRemoval(RuleFile, verr.line)]_vars

\* the length of the text of f: its characters and line ends
RECURSIVE TextLength(_)
TextLength(f) == IF f = <<>> THEN 0 ELSE Len(Head(f)) + 1 + TextLength(Tail(f))

\* C17: every clean that returns leaves the file shorter than it was
C17_RepairShortens ==
    [][(vpc = "clean" /\ vpc' = "check")
       => TextLength(workdir'[vfile]) < TextLength(RuleFile)]_vars

\* new is old with the suffix appended to one occurrence of name
SuffixedOnce(old, new, name) ==
    \E i \in 1..Len(old) :
        /\ i + Len(name) - 1 <= Len(old)
        /\ SubSeq(old, i, i + Len(name) - 1) = name
        /\ new = SubSeq(old, 1, i + Len(name) - 1) \o "_1"
                 \o SubSeq(old, i + Len(name), Len(old))

\* C18: a clean for a duplicated identifier, when it returns, has appended
\* the suffix to one occurrence of the identifier on the error's line and
\* changed nothing else on that line or in the file
C18_RenameOneOccurrence ==
    [][(vpc = "clean" /\ InvalidRuleName(verr) # "" /\ vpc' = "check")
       => /\ Len(workdir'[vfile]) = Len(RuleFile)
          /\ \A i \in 1..Len(RuleFile) :
                IF i = verr.line
                THEN SuffixedOnce(RuleFile[i], workdir'[vfile][i], InvalidRuleName(verr))
                ELSE workdir'[vfile][i] = RuleFile[i]]_vars

\* C19: a check that fails with an error that has not the shape of a syntax
\* error makes validate_rules raise, with no repair and the file as it was
C19_UnexpectedShapeRaises ==
    [][(vpc = "check" /\ verr'.shape = "other")
       => /\ vpc' = "raised"
          /\ vstatus'[vfile] = "raised"
          /\ workdir' = workdir
          /\ repairs' = repairs]_vars

\* validate_rules raised on such an error after an earlier repair
C19_Witness ==
    /\ vpc = "raised"
    /\ verr.shape = "other"
    /\ repairs >= 1

\* C20: a clean that returns has written its lines to the file before the
\* next check, the error a clean works on is the one the file on disk
\* gives, and check and clean alternate until validate_rules ends
C20_RepairPersisted ==
    /\ [][(vpc = "clean" /\ vpc' = "check")
          => workdir'[vfile] = clean(RuleFile, verr.line, InvalidRuleName(verr)).lines]_vars
    /\ [](vpc = "clean" => verr = EngineCompile(RuleFile))
    /\ [][vpc = "check" => vpc' \in {"clean", "returned", "raised"}]_vars
    /\ [][vpc = "clean" => vpc' \in {"check", "raised"}]_vars

\* a check runs on a file that a clean has changed
C20_Witness ==
    /\ vpc = "check"
    /\ repairs >= 1
    /\ RuleFile # orig

(***************************************************************************)
(* Properties of yara_update.                                              *)
(***************************************************************************)
\* C1: every file handed to import_file in this run has had its
\* validate_rules return in this run, its last compile attempt passed, and
\* the content imported compiles
C1_ImportedOnlyValidated ==
    \A k \in 1..Len(imported) :
        /\ vstatus[imported[k].name] = "returned"
        /\ lastCheck[imported[k].name] = "ok"
        /\ EngineCompile(imported[k].content) = NoErr

\* a file that validate_rules repaired has been imported
C1_Witness ==
    \E k \in 1..Len(imported) : imported[k].content # fresh[imported[k].name]

\* the freshly aggregated file of source s has the hash previous_hash records
Unchanged(s) == fresh[s] # NoFile /\ Sha256(fresh[s]) = previous_hash[s]

\* C2: a source whose freshly aggregated file has the hash recorded in
\* previous_hash is neither validated nor imported in this run, and finding
\* it unchanged is no error: the source loop goes on, and a run that finds
\* nothing changed exits without a failure
C2_HashGating ==
    /\ [](\A s \in Sources :
            Unchanged(s) =>
                /\ vstatus[s] = "none"
                /\ s \notin NameSet(files_sha256)
                /\ \A k \in 1..Len(imported) : imported[k].name # s)
    /\ [](pc = "no_update_exit" => ~failed)
    /\ [][\A s \in Sources :
            (fresh[s] = NoFile /\ fresh'[s] # NoFile /\ Sha256(fresh'[s]) = previous_hash[s])
                => (~failed' /\ pc' \in {"download", "gate"} /\ si' = si + 1
                    /\ files_sha256' = files_sha256)]_vars

\* a run has imported one source and left the other, unchanged, alone
C2_Witness ==
    /\ pc = "done"
    /\ Len(imported) >= 1
    /\ \E s \in Sources : Unchanged(s)

\* C8: a run whose previous_hash is the mapping the preceding run wrote,
\* with no source changed upstream since, makes no import call
C8_IdempotentRuns ==
    (run >= 2 /\ chained /\ ~changedSince) => imported = <<>>

\* C9: a run that failed partway has written no hash mapping
C9_NoPartialHashState == failed => response = NoResponse

\* a run failed after it had imported a file
C9_Witness ==
    /\ failed
    /\ pc = "raised"
    /\ Len(imported) >= 1

\* C10: when the validation of a changed file raises, that file is not
\* imported, and by the end of the run every other changed file has been
\* validated and, if its validation returned, imported
C10_OtherFilesStillPublished ==
    \A x \in NameSet(files_sha256) :
        (pc \in Terminal /\ vstatus[x] = "raised") =>
            /\ \A k \in 1..Len(imported) : imported[k].name # x
            /\ \A n \in NameSet(files_sha256) \ {x} :
                  /\ vstatus[n] \in {"returned", "raised"}
                  /\ vstatus[n] = "returned" => \E k \in 1..Len(imported) : imported[k].name = n

\* C11: when the HTTP fetch of a source times out or fails with a
\* connection-level error, the run neither ends nor crashes because of it
C11_TransientErrorSourceScoped ==
    \A s \in Sources :
        (SourceKind[s] = "http" /\ fetchLog[s] \in {"timeout", "error"}) =>
            (~failed /\ pc \notin {"raised", "fetch_exit"})

\* C12: an HTTP source reported as unchanged contributes no aggregated file
\* and no import call, and the run goes on normally
C12_UnchangedHttpSkipped ==
    \A s \in Sources :
        fetchLog[s] = "unchanged" =>
            /\ fresh[s] = NoFile
            /\ \A k \in 1..Len(imported) : imported[k].name # s
            /\ ~failed
            /\ pc # "raised"

\* C13: with a configuration that is missing, has no sources, or lacks the
\* credentials of the signature store, no source is ever fetched
C13_ConfigErrorsBeforeFetch ==
    config \in {"missing", "nosources", "nocreds"} =>
        \A s \in Sources : fetchLog[s] = "none"

\* C14: a run that ended without error and imported at least one changed
\* file has written the response document with the new hash mapping
C14_ResponseAfterSuccess ==
    (pc = "done" /\ Len(imported) >= 1) => response = files_sha256

\* C25: the fetch of a source leaves the files fetched for the other
\* sources in place: a source whose fetch has yielded files in this run still
\* has them in the download directory
C25_WorkingDirsPerSource ==
    \A s \in Sources : fetchLog[s] = "files" => s \in fetched

\* C28: the hash recorded for a changed file, and the one written to the
\* response, is the hash of the file as the aggregation wrote it, whatever
\* the validator has done to the file since
C28_FingerprintBeforeRepair ==
    /\ \A k \in 1..Len(files_sha256) :
           files_sha256[k].sha256 = Sha256(fresh[files_sha256[k].name])
    /\ response # NoResponse =>
           \A k \in 1..Len(response) :
               response[k].sha256 = Sha256(fresh[response[k].name])

\* the response is written with the hash of a file the validator has repaired
C28_Witness ==
    /\ pc = "done"
    /\ response # NoResponse
    /\ \E k \in 1..Len(response) :
          /\ workdir[response[k].name] # fresh[response[k].name]
          /\ \E j \in 1..Len(imported) :
                /\ imported[j].name = response[k].name
                /\ imported[j].content = workdir[response[k].name]

\* C29: the mapping a run writes holds exactly the files whose hash differs
\* from their entry of previous_hash; the entry of a file that has not
\* changed is not in it
C29_MappingHoldsChangedOnly ==
    response # NoResponse =>
        NameSet(response) =
            {s \in Sources : fresh[s] # NoFile /\ Sha256(fresh[s]) # previous_hash[s]}

\* a mapping is written without the entry previous_hash has for a file that
\* has not changed
C29_Witness ==
    /\ pc = "done"
    /\ response # NoResponse
    /\ \E s \in Sources :
          /\ fresh[s] # NoFile
          /\ previous_hash[s] = Sha256(fresh[s])
          /\ s \notin NameSet(response)

(***************************************************************************)
(* Properties of the include resolution.                                   *)
(***************************************************************************)
\* number of lines of f equal to l
Occurrences(f, l) == Cardinality({k \in 1..Len(f) : f[k] = l})

\* number of lines in all the files of the directory
TotalLines == Len(fs[PathA]) + Len(fs[PathB]) + Len(fs[PathC])

\* C7: whatever the files include, themselves or each other in a cycle,
\* the resolution of a top-level file comes to an end, its text is no
\* longer than the files of the directory together, and it holds the
\* file's own rule line no more than once
C7_IncludeCycleSafe ==
    /\ (ipc = "resolve" /\ fi <= Len(files) /\ files[fi] \notin processed_files)
          => Len(ExpandFile(files[fi]).lines) <= TotalLines
    /\ \A k \in 1..Len(resolved) :
          /\ Occurrences(resolved[k].lines, OwnLine[resolved[k].file]) <= 1
          /\ Len(resolved[k].lines) <= TotalLines

\* a.yar, which includes itself and b.yar, which includes a.yar, is resolved
C7_Witness ==
    /\ ipc = "done"
    /\ files[1] = PathA
    /\ fs[PathA] = <<OwnLine[PathA], "include 'a.yar'", "include './b.yar'">>
    /\ fs[PathB] = <<OwnLine[PathB], "include 'a.yar'">>
    /\ Len(resolved) >= 1
    /\ resolved[1].file = PathA

\* number of times the rule line of file p occurs in the texts handed to
\* the parser so far, over all the top-level files of the source
RECURSIVE TotalOccurrences(_, _)
TotalOccurrences(p, k) ==
    IF k = 0 THEN 0
    ELSE Occurrences(resolved[k].lines, OwnLine[p]) + TotalOccurrences(p, k - 1)

\* the include lines of the model whose target is in processed_files
ProcessedIncludes ==
    {l \in IncludeLines :
        /\ IncludeMatches(l)
        /\ NormPath(PathJoin(Dir, IncludePath(l))) \in processed_files}

\* C21: in the aggregation of one source the rule line of every file,
\* reached at top level or through includes, in either order, occurs at
\* most once in the texts handed to the parser; an include of a path that
\* is in processed_files yields the separating blank line only and leaves
\* the set as it is; a top-level file is resolved once at most
C21_NoPathInlinedTwice ==
    /\ \A p \in DOMAIN fs : TotalOccurrences(p, Len(resolved)) <= 1
    /\ \A l \in ProcessedIncludes :
          replace_include(l, Dir, processed_files) =
              [lines |-> <<"">>, processed |-> processed_files, raised |-> FALSE]
    /\ \A j, k \in 1..Len(resolved) : resolved[j].file = resolved[k].file => j = k

\* b.yar, a.yar and c.yar are fetched in this order; a.yar includes b.yar
\* and c.yar, b.yar includes c.yar: a.yar is resolved after b.yar, and
\* c.yar, inlined by then, is skipped at top level
C21_Witness ==
    /\ ipc = "done"
    /\ files = <<PathB, PathA, PathC>>
    /\ fs[PathA] = <<OwnLine[PathA], "include './b.yar'", "include \"c.yar\"">>
    /\ fs[PathB] = <<OwnLine[PathB], "include \"c.yar\"">>
    /\ Len(resolved) = 2

\* f without the include lines whose target does not exist
RECURSIVE WithoutMissing(_)
WithoutMissing(f) ==
    IF f = <<>> THEN <<>>
    ELSE IF /\ StartsWith(Head(f), "include")
            /\ IncludeMatches(Head(f))
            /\ ~PathExists(NormPath(PathJoin(Dir, IncludePath(Head(f)))))
         THEN WithoutMissing(Tail(f))
         ELSE <<Head(f)>> \o WithoutMissing(Tail(f))

\* C22: an include of a file that does not exist yields no line, leaves
\* processed_files as it is and raises nothing; the file that holds it is
\* resolved as if the include line were not there
C22_MissingIncludeSkipped ==
    /\ replace_include("include 'miss.yar'", Dir, processed_files) =
          [lines |-> <<>>, processed |-> processed_files, raised |-> FALSE]
    /\ (ipc = "resolve" /\ fi <= Len(files) /\ files[fi] \notin processed_files)
          => ExpandFile(files[fi]) =
                ExpandLines(WithoutMissing(fs[files[fi]]), 1, DirName(files[fi]),
                            [lines |-> <<>>,
                             processed |-> processed_files \cup {NormPath(files[fi])},
                             raised |-> FALSE])

\* a.yar includes a missing file and then b.yar, whose rule is inlined
C22_Witness ==
    /\ ipc = "done"
    /\ fs[PathA] = <<OwnLine[PathA], "include 'miss.yar'", "include './b.yar'">>
    /\ Len(resolved) >= 1
    /\ resolved[1].file = PathA
    /\ Occurrences(resolved[1].lines, OwnLine[PathB]) = 1

RECURSIVE Aggregated(_)
\* the serialized rules of the first k processed files, in processing order
Aggregated(k) ==
    IF k = 0 THEN <<>>
    ELSE Aggregated(k - 1) \o Signatures(resolved[k].file, resolved[k].lines)

\* C24: once the working directory is reset, the aggregated file of the
\* source does not exist until a file is processed, and after that it holds
\* the serialized rules of every processed input file, in processing order
\* and nothing else; the mode is "w" for the first processed file only
C24_AggregationAccumulates ==
    ipc \in {"resolve", "done", "raised"} =>
        /\ outfile = (IF resolved = <<>> THEN NoFile ELSE Aggregated(Len(resolved)))
        /\ mode = (IF resolved = <<>> THEN "w" ELSE "a")
        /\ \A k \in 1..Len(outfile) : outfile[k] # LeftOver[1]

C24_Witness ==
    /\ ipc = "done"
    /\ Len(resolved) = 2
    /\ Len(fs[resolved[1].file]) > 1
    /\ Len(outfile) >= 3
    /\ outfile[1] = OwnLine[resolved[1].file]
    /\ outfile[Len(outfile)] = OwnLine[resolved[2].file]

(***************************************************************************)
(* Properties of url_download.                                             *)
(***************************************************************************)
\* C23: url_download issues the HEAD request first; with previous_update
\* given and a Last-Modified that is not newer it issues no GET request;
\* every GET request it issues with previous_update given carries
\* If-Modified-Since for previous_update; a 304 answer yields no file
C23_HttpChangeDetection ==
    /\ \A k \in 1..Len(dl.requests) : (dl.requests[k].method = "HEAD") = (k = 1)
    /\ (/\ dl.previous_update # 0
        /\ dl.last_modified # 0
        /\ dl.last_modified <= dl.previous_update)
          => \A k \in 1..Len(dl.requests) : dl.requests[k].method # "GET"
    /\ dl.previous_update # 0 =>
          \A k \in 1..Len(dl.requests) :
              dl.requests[k].method = "GET" =>
                  dl.requests[k].if_modified_since = HttpDate(dl.previous_update)
    /\ dl.status = "not_modified" => dl.result = "none"

(***************************************************************************)
(* Properties of the category inference                                    *)
(***************************************************************************)
\* os.path.basename
BaseName(path) == SubSeq(path, Len(DirName(path)) + 2, Len(path))

\* C26: the category guessed for a file is the one of the first entry of the
\* keyword table, in the order technique, info, tool, exploit, malware, that
\* has a keyword occurring in the name of the file (its directory and the
\* name of its source play no part), and the metadata gets a category entry
\* exactly when there is such an entry
C26_CategoryFromFileName ==
    /\ cat.pc \in {"stamp", "done"} =>
           cat.guessed_category = guess_category(BaseName(cat.file))
    /\ cat.pc = "done" =>
           \/ /\ guess_category(BaseName(cat.file)) = NoCategory
              /\ \A k \in 1..Len(cat.metadata) : ~StartsWith(cat.metadata[k], "category=")
           \/ /\ guess_category(BaseName(cat.file)) # NoCategory
              /\ cat.metadata[Len(cat.metadata)] =
                     "category=" \o guess_category(BaseName(cat.file))

(***************************************************************************)
(* Properties of the rule loading                                          *)
(***************************************************************************)
\* C27: _load_rules raises only when no directory it is to try yields a
\* valid ruleset: with a directory whose files compile in the update
\* directory, it does not raise
C27_FallsBackToOlder ==
    (ld.pc = "raised" /\ ld.exists) =>
        \A d \in DOMAIN ld.dirs : ld.dirs[d] # "valid"

(***************************************************************************)
(* Properties of the threads of the service                                *)
(***************************************************************************)
\* C30: a match runs with initialization_lock held by its thread and on the
\* ruleset self.rules refers to from its start to its end; self.rules is
\* replaced with the lock held by the loading thread, while no match runs
C30_LoadExcludesMatch ==
    /\ \A e \in Executors :
          th.epc[e] = "matching" =>
              /\ th.lock = e
              /\ th.using[e] = th.rules
              /\ th.lpc \notin {"locked", "assigned"}
    /\ th.lpc \in {"locked", "assigned"} =>
          /\ th.lock = Loader
          /\ \A e \in Executors : th.epc[e] \notin {"locked", "matching"}

\* a match is running on the old ruleset while the loading thread, a new
\* ruleset compiled, waits for the lock, and another request waits too
C30_Witness ==
    /\ th.lpc = "compiled"
    /\ th.new # th.rules
    /\ \E e \in Executors :
          /\ th.epc[e] = "matching"
          /\ th.using[e] >= 1
          /\ \E o \in Executors \ {e} : th.epc[o] = "prepared"

=============================================================================
